---- MODULE Spec2Model ----
(***************************************************************************)
(* QUANTUM-LEAP: the PCM decoder of services/gemini (decode,               *)
(* decodeAudioData), the leap orchestration of App (handleLeap), the audio *)
(* playback of LeapDashboard (toggleAudio, unmount cleanup) and the audio  *)
(* context life cycle of AetherGate.                                       *)
(*                                                                         *)
(* Two specifications share the module:                                    *)
(*   SpecDecode  one decode(base64) + decodeAudioData call on an input     *)
(*               drawn from bounded sets;                                  *)
(*   Spec        the App screen: leaps, dashboard mounts, playback, gate.  *)
(***************************************************************************)
EXTENDS Integers, Sequences, FiniteSets, Bags, TLC

VARIABLES
    \* ---- decoder call (SpecDecode) ----
    binaryString,      \* atob(base64): the char codes, one per byte
    sampleRate,        \* decodeAudioData argument
    numChannels,       \* decodeAudioData argument
    littleEndianHost,  \* byte order of the host: typed-array views use it
    data,              \* the Uint8Array returned by decode()
    dpc,               \* "atob" -> "bytes" -> "done"
    call,              \* outcome of the decodeAudioData call
    \* ---- App screen (Spec) ----
    showGate,          \* App: useState(false)
    state,             \* App: the LeapState
    leap,              \* the handleLeap call in flight or last finished
    invoked,           \* <<collaborator, leap id>> for every media request made
    contexts,          \* the AudioContexts constructed: who created each,
                       \* whether that creator is still there, its state
    dash,              \* LeapDashboard: isPlaying and the two refs
    sources,           \* every AudioBufferSourceNode toggleAudio started
    gate,              \* AetherGate: phase and audioCtxRef
    intervals,         \* the setInterval timers startEvent created (a bag)
    timeouts,          \* the setTimeout timers finalizeEvent created (a bag)
    afterUnmount       \* what a gate did after it was unmounted

decVars == <<binaryString, sampleRate, numChannels, littleEndianHost, data, dpc, call>>

-----------------------------------------------------------------------------
(* Bounds of the model *)

MaxSamples == 4
MaxChannels == 3
MaxLeaps == 2
MaxGateOpens == 1
MaxSources == 3
MaxStarts == 2

(* 16-bit sample values the inputs are built from: zero, the half-scale     *)
(* value (bytes 00 40: 64 when read high byte first) and both extremes.     *)
SampleVals == {0, 16384, -32768, 32767}

(* A trailing byte that makes a payload odd-length. *)
TailBytes == {127}

SampleRates == {24000, 48000}

-----------------------------------------------------------------------------
(* Numbers *)

RECURSIVE Pow2(_)
Pow2(n) == IF n = 0 THEN 1 ELSE 2 * Pow2(n - 1)

(* The result of an element read: <<v>> for the number v, <<>> for        *)
(* undefined.                                                              *)
Undefined == <<>>

(* A finite binary floating-point value is <<m, e>>, standing for m / 2^e, *)
(* kept in lowest terms (m odd, or e = 0). NaN is the pair below, which    *)
(* stands for no finite value.                                             *)
NaN == <<0, -1>>

RECURSIVE Reduce(_, _)
Reduce(m, e) ==
    IF m = 0 THEN <<0, 0>>
    ELSE IF e > 0 /\ m % 2 = 0 THEN Reduce(m \div 2, e - 1)
    ELSE <<m, e>>

(* Binary long division of r/d continued from quotient q until the         *)
(* quotient is exact or holds the 24 significant bits of a float32.        *)
RECURSIVE LongDiv(_, _, _, _)
LongDiv(q, r, d, e) ==
    IF r = 0 \/ q >= Pow2(23) THEN <<q, r, e>>
    ELSE LongDiv(2 * q + (IF 2 * r >= d THEN 1 ELSE 0), (2 * r) % d, d, e + 1)

(* The float32 nearest to a/d (a >= 0, d > 0), ties to even: what a store  *)
(* into a Float32Array keeps of the quotient.                              *)
Fround(a, d) ==
    LET t == LongDiv(a \div d, a % d, d, 0)
        q == t[1]
        r == t[2]
        up == 2 * r > d \/ (2 * r = d /\ q % 2 = 1)
    IN  Reduce(IF up THEN q + 1 ELSE q, t[3])

(* x / d as stored in a Float32Array, x the result of an element read;   *)
(* undefined / d is NaN.                                                   *)
Float32Quotient(x, d) ==
    IF x = Undefined THEN NaN
    ELSE IF x[1] < 0 THEN LET f == Fround(-x[1], d) IN <<-f[1], f[2]>>
    ELSE Fround(x[1], d)

-----------------------------------------------------------------------------
(* Inputs *)

(* The two bytes of a 16-bit sample, low byte first (the PCM wire format). *)
BytesLE(s) ==
    LET u == IF s < 0 THEN s + 65536 ELSE s
    IN  <<u % 256, u \div 256>>

RECURSIVE EncodeLE(_)
EncodeLE(samples) ==
    IF samples = <<>> THEN <<>>
    ELSE BytesLE(Head(samples)) \o EncodeLE(Tail(samples))

SampleSeqs == UNION {[1..n -> SampleVals] : n \in 0..MaxSamples}

(* Byte strings: whole samples, optionally followed by one stray byte. *)
Payloads ==
    {EncodeLE(s) : s \in SampleSeqs}
        \cup {EncodeLE(s) \o <<b>> : s \in SampleSeqs, b \in TailBytes}

-----------------------------------------------------------------------------
(* services/gemini: decode *)

(* bytes[i] = binaryString.charCodeAt(i), stored into a Uint8Array *)
decode(str) == [i \in 1..Len(str) |-> str[i] % 256]

-----------------------------------------------------------------------------
(* services/gemini: decodeAudioData *)

NoBuffer == [numberOfChannels |-> 0, length |-> 0, sampleRate |-> 0, channelData |-> <<>>]

ToInt16(u) == IF u >= 32768 THEN u - 65536 ELSE u

(* new Int16Array(data.buffer) throws a RangeError when the buffer's byte   *)
(* length is not a multiple of the element size.                            *)
Int16ViewNeverThrows(bytes) == FALSE
Int16ViewThrows(bytes) == Len(bytes) % 2 # 0

(* The elements of the view: each byte pair read in the host's byte order. *)
Int16Array(bytes, le) ==
    [k \in 1..(Len(bytes) \div 2) |->
        ToInt16(IF le THEN bytes[2 * k - 1] + 256 * bytes[2 * k]
                      ELSE 256 * bytes[2 * k - 1] + bytes[2 * k])]

(* arr[k] of a typed array: undefined outside 0..length-1 *)
Get(arr, k) == IF k \in 0..(Len(arr) - 1) THEN <<arr[k + 1]>> ELSE Undefined

(* dataInt16.length / numChannels: a JavaScript number, kept as the        *)
(* fraction <<numerator, denominator>>; it is not an integer division.     *)
frameCount(dataInt16, n) == <<Len(dataInt16), n>>

(* i < frameCount *)
LessThanFrameCount(i, f) == i * f[2] < f[1]

(* createBuffer's length parameter is an unsigned long: the number is      *)
(* truncated to an integer on the way in.                                  *)
ToUnsignedLong(f) == f[1] \div f[2]

(* ctx.createBuffer throws NotSupportedError for a channel count outside   *)
(* 1..32, a length of zero frames or a sample rate outside 8000..96000.    *)
CreateBufferThrows(n, length, rate) ==
    n < 1 \/ n > 32 \/ length < 1 \/ rate < 8000 \/ rate > 96000

(* dataInt16[i * numChannels + channel] *)
SampleIndexNoChannel(i, n, channel) == i * n
SampleIndex(i, n, channel) == i * n + channel

(* x / 32768.0, stored into the channel's Float32Array *)
NormalizeBy32767(x) == Float32Quotient(x, 32767)
Normalize(x) == Float32Quotient(x, 32768)

(* The (channel, i) pairs the two nested loops run through. *)
Iterations(f, n) ==
    {it \in (0..(n - 1)) \X (0..f[1]) : LessThanFrameCount(it[2], f)}

(* The call as a whole. accesses records, for every iteration, the sample  *)
(* index read and the frame index written; a write at or past the          *)
(* channel's length is dropped by the typed array, a cell never written    *)
(* keeps createBuffer's zero.                                              *)
decodeAudioData(bytes, rate, n, le) ==
    IF Int16ViewThrows(bytes)
    THEN [outcome |-> "thrown", error |-> "RangeError", dataInt16 |-> <<>>,
          buffer |-> NoBuffer, accesses |-> {}]
    ELSE
    LET dataInt16 == Int16Array(bytes, le)
        f == frameCount(dataInt16, n)
        length == ToUnsignedLong(f)
        its == Iterations(f, n)
    IN  IF CreateBufferThrows(n, length, rate)
        THEN [outcome |-> "thrown", error |-> "NotSupportedError",
              dataInt16 |-> dataInt16, buffer |-> NoBuffer, accesses |-> {}]
        ELSE [outcome |-> "returned", error |-> "none", dataInt16 |-> dataInt16,
              buffer |->
                [numberOfChannels |-> n, length |-> length, sampleRate |-> rate,
                 channelData |->
                    [c \in 1..n |-> [i \in 1..length |->
                        IF <<c - 1, i - 1>> \in its
                        THEN Normalize(Get(dataInt16, SampleIndex(i - 1, n, c - 1)))
                        ELSE <<0, 0>>]]],
              accesses |->
                {[channel |-> it[1], frame |-> it[2],
                  index |-> SampleIndex(it[2], n, it[1])] : it \in its}]

NotCalled == [outcome |-> "pending", error |-> "none", dataInt16 |-> <<>>,
              buffer |-> NoBuffer, accesses |-> {}]

-----------------------------------------------------------------------------
(* State of the App screen before anything happened *)

appVars == <<showGate, state, leap, invoked, contexts, dash, sources, gate,
             intervals, timeouts, afterUnmount>>
vars == <<decVars, appVars>>

(* null for manifest and imageData (a manifest or an image is named by the *)
(* number of the leap that produced it); a null audioBuffer is NoBuffer.   *)
Null == 0

IdleState ==
    [status |-> "idle", manifest |-> Null, imageData |-> Null,
     audioBuffer |-> NoBuffer, error |-> "none"]

NoLeap ==
    [pc |-> "none", id |-> 0, manifest |-> "pending", image |-> "pending",
     audio |-> "pending", audioValue |-> NoBuffer]

(* A ref to an AudioContext is TRUE when set: each component holds at most *)
(* the one context it created.                                             *)
NoDash == [mounted |-> FALSE, isPlaying |-> FALSE, sourceRef |-> 0,
           audioContextRef |-> FALSE]

(* opens counts the times the gate was shown. *)
(* oscillators is the length of oscillatorsRef.current; finalized and      *)
(* writes count the runs of finalizeEvent and the clipboard writes of the  *)
(* mounted gate.                                                           *)
NoGate == [mounted |-> FALSE, opens |-> 0, phase |-> "init", audioCtxRef |-> FALSE,
           starts |-> 0, resuming |-> 0, activeGlyph |-> -1, oscillators |-> 0,
           finalized |-> 0, writes |-> 0]

-----------------------------------------------------------------------------
(* SpecDecode: one decode + decodeAudioData call *)

DecodeInit ==
    /\ binaryString \in Payloads
    /\ sampleRate \in SampleRates
    /\ numChannels \in 1..MaxChannels
    /\ littleEndianHost \in BOOLEAN
    /\ data = <<>>
    /\ dpc = "atob"
    /\ call = NotCalled
    /\ showGate = FALSE
    /\ state = IdleState
    /\ leap = NoLeap
    /\ invoked = {}
    /\ contexts = {}
    /\ dash = NoDash
    /\ sources = <<>>
    /\ gate = NoGate
    /\ intervals = EmptyBag
    /\ timeouts = EmptyBag
    /\ afterUnmount = {}

Decode ==
    /\ dpc = "atob"
    /\ data' = decode(binaryString)
    /\ dpc' = "bytes"
    /\ UNCHANGED <<binaryString, sampleRate, numChannels, littleEndianHost, call>>
    /\ UNCHANGED appVars

DecodeAudioData ==
    /\ dpc = "bytes"
    /\ call' = decodeAudioData(data, sampleRate, numChannels, littleEndianHost)
    /\ dpc' = "done"
    /\ UNCHANGED <<binaryString, sampleRate, numChannels, littleEndianHost, data>>
    /\ UNCHANGED appVars

DecodeNext == Decode \/ DecodeAudioData

SpecDecode == DecodeInit /\ [][DecodeNext]_vars

-----------------------------------------------------------------------------
(* App: LeapState and handleLeap *)

(* new AudioContext() by owner ("leap", "dashboard" or "gate"). Contexts   *)
(* alike in creator, the creator's being there and state are not told      *)
(* apart.                                                                  *)
NewContext(ctxs, owner) ==
    ctxs \cup {[owner |-> owner, live |-> TRUE, state |-> "running"]}

(* The context of the owner that is still there, once closed or left open  *)
(* (close = FALSE) as that owner goes away.                                *)
ReleaseContext(ctxs, owner, close) ==
    {IF c.owner = owner /\ c.live
     THEN [c EXCEPT !.live = FALSE,
                    !.state = IF close THEN "closed" ELSE c.state]
     ELSE c : c \in ctxs}

(* source.stop(): a playing source stops and its 'ended' event is queued;  *)
(* a source that already ended is left as it is.                           *)
StopSource(srcs, ref) ==
    IF srcs[ref].state = "playing"
    THEN [srcs EXCEPT ![ref].state = "ended", ![ref].endedQueued = TRUE]
    ELSE srcs

(* App renders <LeapDashboard> when the gate is not shown and              *)
(* state.manifest is set.                                                  *)
DashboardRendered(sg, st) == ~sg /\ st.manifest # Null

(* LeapDashboard's effects on a render with showGate = sg, state = st:     *)
(* the mount effect creates the AudioContext, the unmount cleanup stops    *)
(* sourceRef.current. ctxs are the contexts before the render.             *)
RenderDashboard(sg, st, ctxs) ==
    IF dash.mounted /\ ~DashboardRendered(sg, st)
    THEN /\ dash' = NoDash
         /\ sources' =
                LET stopped == IF dash.sourceRef # 0
                               THEN StopSource(sources, dash.sourceRef) ELSE sources
                IN  [k \in 1..Len(stopped) |-> [stopped[k] EXCEPT !.current = FALSE]]
         /\ contexts' = ReleaseContext(ctxs, "dashboard", FALSE)
    ELSE IF ~dash.mounted /\ DashboardRendered(sg, st)
    THEN /\ dash' = [mounted |-> TRUE, isPlaying |-> FALSE, sourceRef |-> 0,
                     audioContextRef |-> TRUE]
         /\ contexts' = NewContext(ctxs, "dashboard")
         /\ sources' = sources
    ELSE /\ dash' = dash
         /\ contexts' = ctxs
         /\ sources' = sources

(* The main screen's input and button are enabled. *)
CanStartLeap ==
    /\ ~showGate
    /\ state.status \notin {"analyzing", "generating_media"}

(* setShowGate(true): AetherGate mounts, the main screen unmounts. *)
ShowGate ==
    /\ gate.opens < MaxGateOpens
    /\ showGate' = TRUE
    /\ gate' = [NoGate EXCEPT !.mounted = TRUE, !.opens = gate.opens + 1]
    /\ RenderDashboard(TRUE, state, contexts)
    /\ UNCHANGED <<state, leap, invoked, intervals, timeouts, afterUnmount>>

(* handleLeap's "Reset state": every field is set anew. *)
ResetKeepingResults == [state EXCEPT !.status = "analyzing", !.error = "none"]
ResetState ==
    [status |-> "analyzing", manifest |-> Null, imageData |-> Null,
     audioBuffer |-> NoBuffer, error |-> "none"]

(* handleLeap up to its first await. topic is blank, contains 'aether' or  *)
(* 'event', or is any other text.                                          *)
HandleLeap ==
    /\ CanStartLeap
    /\ \E topic \in {"blank", "gateword", "plain"} :
        CASE topic = "blank" -> UNCHANGED appVars
          [] topic = "gateword" -> ShowGate
          [] topic = "plain" ->
                /\ leap.id < MaxLeaps
                /\ state' = ResetState
                /\ leap' = [NoLeap EXCEPT !.pc = "awaitManifest", !.id = leap.id + 1]
                /\ RenderDashboard(showGate, state', contexts)
                /\ UNCHANGED <<showGate, invoked, gate, intervals, timeouts, afterUnmount>>
    /\ UNCHANGED decVars

(* generateManifest fails when the request rejects, the response has no    *)
(* text or JSON.parse throws.                                              *)
ManifestFailedUnlessNoText(outcome) == outcome \in {"rejected", "badJSON"}
ManifestFailed(outcome) == outcome \in {"rejected", "noText", "badJSON"}

(* handleLeap resumes from await generateManifest(topic). *)
ManifestSettles ==
    /\ leap.pc = "awaitManifest"
    /\ \E outcome \in {"ok", "rejected", "noText", "badJSON"} :
        IF ManifestFailed(outcome)
        THEN /\ state' = [state EXCEPT !.status = "error", !.error = "critical"]
             /\ leap' = [leap EXCEPT !.pc = "done", !.manifest = outcome]
             /\ RenderDashboard(showGate, state', contexts)
             /\ UNCHANGED invoked
        ELSE /\ state' = [state EXCEPT !.status = "generating_media",
                                       !.manifest = leap.id]
             /\ leap' = [leap EXCEPT !.pc = "awaitMedia", !.manifest = outcome]
             /\ invoked' = invoked \cup {<<"image", leap.id>>, <<"audio", leap.id>>}
             /\ RenderDashboard(showGate, state',
                                NewContext(contexts, "leap"))
    /\ UNCHANGED <<showGate, gate, intervals, timeouts, afterUnmount, decVars>>

(* generateLeapImage settles. *)
ImageSettles ==
    /\ leap.pc = "awaitMedia"
    /\ leap.image = "pending"
    /\ \E outcome \in {"fulfilled", "rejected"} :
        leap' = [leap EXCEPT !.image = outcome]
    /\ UNCHANGED <<showGate, state, invoked, contexts, dash, sources, gate,
                   intervals, timeouts, afterUnmount, decVars>>

(* What the speech request can come back with: a rejection, a response     *)
(* without inline data, or base64 audio of these bytes.                    *)
AudioResponses ==
    {[rejects |-> TRUE, bytes |-> <<>>], [rejects |-> FALSE, bytes |-> <<>>],
     [rejects |-> FALSE, bytes |-> EncodeLE(<<16384, -32768>>)],
     [rejects |-> FALSE, bytes |-> EncodeLE(<<16384>>) \o <<127>>]}

(* generateLeapAudio settles: it rejects with the request, throws "No      *)
(* audio generated" for missing (or empty) data, and otherwise returns     *)
(* decodeAudioData(decode(base64Audio), audioContext, 24000, 1).           *)
AudioSettles ==
    /\ leap.pc = "awaitMedia"
    /\ leap.audio = "pending"
    /\ \E resp \in AudioResponses :
        IF resp.rejects \/ resp.bytes = <<>>
        THEN leap' = [leap EXCEPT !.audio = "rejected"]
        ELSE LET r == decodeAudioData(decode(resp.bytes), 24000, 1, littleEndianHost)
             IN  leap' = IF r.outcome = "returned"
                         THEN [leap EXCEPT !.audio = "fulfilled",
                                           !.audioValue = r.buffer]
                         ELSE [leap EXCEPT !.audio = "rejected"]
    /\ UNCHANGED <<showGate, state, invoked, contexts, dash, sources, gate,
                   intervals, timeouts, afterUnmount, decVars>>

(* Promise.allSettled([image, audio]): fulfilled once both have settled,   *)
(* never rejected. Promise.all would reject with the first rejection.      *)
PromiseAll(image, audio) ==
    IF "rejected" \in {image, audio} THEN "rejected"
    ELSE IF "pending" \in {image, audio} THEN "pending"
    ELSE "fulfilled"
PromiseAllSettled(image, audio) ==
    IF "pending" \in {image, audio} THEN "pending" ELSE "fulfilled"

(* handleLeap resumes from await Promise.allSettled(...): the final        *)
(* setState, or the catch block were the await to throw.                   *)
MediaSettled ==
    /\ leap.pc = "awaitMedia"
    /\ PromiseAllSettled(leap.image, leap.audio) # "pending"
    /\ state' =
        IF PromiseAllSettled(leap.image, leap.audio) = "fulfilled"
        THEN [state EXCEPT
                !.status = "complete",
                !.imageData = IF leap.image = "fulfilled" THEN leap.id ELSE Null,
                !.audioBuffer = IF leap.audio = "fulfilled" THEN leap.audioValue
                                ELSE NoBuffer,
                !.error = IF "rejected" \in {leap.image, leap.audio}
                          THEN "partial" ELSE "none"]
        ELSE [state EXCEPT !.status = "error", !.error = "critical"]
    /\ leap' = [leap EXCEPT !.pc = "done"]
    /\ RenderDashboard(showGate, state', ReleaseContext(contexts, "leap", FALSE))
    /\ UNCHANGED <<showGate, invoked, gate, intervals, timeouts, afterUnmount, decVars>>

(* The 'Protocol 72' button of the main screen. *)
OpenGate ==
    /\ ~showGate
    /\ ShowGate
    /\ UNCHANGED decVars

-----------------------------------------------------------------------------
(* LeapDashboard: toggleAudio and the 'ended' notification *)

ToggleAudio ==
    /\ dash.mounted
    /\ state.audioBuffer # NoBuffer
    /\ dash.audioContextRef
    /\ IF dash.isPlaying
       THEN /\ sources' = IF dash.sourceRef # 0
                          THEN StopSource(sources, dash.sourceRef) ELSE sources
            /\ dash' = [dash EXCEPT !.sourceRef = 0, !.isPlaying = FALSE]
       ELSE /\ Len(sources) < MaxSources
            /\ sources' = Append(sources, [current |-> TRUE, state |-> "playing",
                                           endedQueued |-> FALSE])
            /\ dash' = [dash EXCEPT !.sourceRef = Len(sources) + 1,
                                    !.isPlaying = TRUE]
    /\ UNCHANGED <<showGate, state, leap, invoked, contexts, gate, intervals, timeouts, afterUnmount,
                   decVars>>

(* A playing source reaches the end of its buffer. *)
SourceFinishes ==
    /\ \E s \in 1..Len(sources) :
        /\ sources[s].state = "playing"
        /\ sources' = [sources EXCEPT ![s].state = "ended", ![s].endedQueued = TRUE]
    /\ UNCHANGED <<showGate, state, leap, invoked, contexts, dash, gate, intervals, timeouts, afterUnmount,
                   decVars>>

(* source.onended = () => setIsPlaying(false), of the dashboard instance   *)
(* that started the source (current: that instance is still mounted); a    *)
(* state update of an unmounted instance is dropped.                       *)
EndedEvent ==
    /\ \E s \in 1..Len(sources) :
        /\ sources[s].endedQueued
        /\ sources' = [sources EXCEPT ![s].endedQueued = FALSE]
        /\ dash' = IF dash.mounted /\ sources[s].current
                   THEN [dash EXCEPT !.isPlaying = FALSE] ELSE dash
    /\ UNCHANGED <<showGate, state, leap, invoked, contexts, gate, intervals, timeouts, afterUnmount,
                   decVars>>

-----------------------------------------------------------------------------
(* AetherGate: startEvent up to the interval, and the unmount cleanup *)

(* setPhase('dialing') and setInterval(...): the rest of startEvent. *)
BeginDialing(g) ==
    /\ gate' = [g EXCEPT !.phase = IF g.mounted THEN "dialing" ELSE g.phase]
    /\ intervals' = intervals (+) SetToBag({[mounted |-> g.mounted, step |-> 0]})

(* A click on 'Initiate Sequence', shown while phase is 'init'. A context  *)
(* that is still suspended makes startEvent await resume().                *)
StartEvent ==
    /\ gate.mounted
    /\ gate.phase = "init"
    /\ gate.starts < MaxStarts
    /\ LET g == [gate EXCEPT !.starts = @ + 1, !.audioCtxRef = TRUE]
       IN  /\ contexts' = IF gate.audioCtxRef THEN contexts
                           ELSE NewContext(contexts, "gate")
           /\ \E suspended \in BOOLEAN :
                IF suspended
                THEN /\ gate' = [g EXCEPT !.resuming = @ + 1]
                     /\ UNCHANGED intervals
                ELSE BeginDialing(g)
    /\ UNCHANGED <<showGate, state, leap, invoked, dash, sources, timeouts,
                   afterUnmount, decVars>>

(* audioCtxRef.current.resume() fulfils: startEvent continues. *)
StartEventResumed ==
    /\ gate.mounted
    /\ gate.resuming > 0
    /\ BeginDialing([gate EXCEPT !.resuming = @ - 1])
    /\ UNCHANGED <<showGate, state, leap, invoked, contexts, dash, sources,
                   timeouts, afterUnmount, decVars>>

(* The timers of a bag after the unmount: the cleanup clears none of them, *)
(* they belong to a gate that is no longer mounted.                        *)
Orphaned(timers) ==
    LET recs == {[r EXCEPT !.mounted = FALSE] : r \in BagToSet(timers)}
    IN  [r \in recs |-> CopiesIn(r, timers)
                        + CopiesIn([r EXCEPT !.mounted = TRUE], timers)]

(* 'Abort Protocol': onClose -> setShowGate(false). AetherGate unmounts;   *)
(* its cleanup stops the oscillators of oscillatorsRef and closes          *)
(* audioCtxRef.current, which rejects the resume() promises still pending. *)
(* The main screen is rendered again.                                      *)
CloseGate ==
    /\ showGate
    /\ showGate' = FALSE
    /\ gate' = [NoGate EXCEPT !.opens = gate.opens]
    /\ intervals' = Orphaned(intervals)
    /\ timeouts' = Orphaned(timeouts)
    /\ UNCHANGED afterUnmount
    /\ RenderDashboard(FALSE, state,
            IF gate.audioCtxRef THEN ReleaseContext(contexts, "gate", TRUE)
            ELSE contexts)
    /\ UNCHANGED <<state, leap, invoked, decVars>>

-----------------------------------------------------------------------------
(* AetherGate: the interval callback, finalizeEvent and its timeout *)

NumGlyphs == 9
TriadSize == 3

(* playTriad(index): audioCtxRef was set by startEvent and is never        *)
(* cleared, so one oscillator per frequency of the triad is created,       *)
(* started and pushed to oscillatorsRef.                                   *)
playTriad(g) == [g EXCEPT !.oscillators = @ + TriadSize]

(* The interval callback's test for the end of the dialing. *)
DialedOnePastAll(step) == step > NumGlyphs
DialedAll(step) == step >= NumGlyphs

(* finalizeEvent: the state setters, the broadcast oscillator (not pushed  *)
(* to oscillatorsRef) and setTimeout. The setters of an unmounted gate do  *)
(* nothing.                                                                *)
finalizeEvent(mounted) ==
    /\ gate' = IF mounted
               THEN [gate EXCEPT !.phase = "locked", !.activeGlyph = NumGlyphs,
                                 !.finalized = @ + 1]
               ELSE gate
    /\ timeouts' = timeouts (+) SetToBag({[mounted |-> mounted]})
    /\ afterUnmount' = IF mounted THEN afterUnmount
                       ELSE afterUnmount \cup {"oscillator"}

(* One firing of an interval timer that was not cleared. *)
IntervalTick ==
    /\ \E t \in BagToSet(intervals) :
         IF DialedAll(t.step)
         THEN /\ intervals' = intervals (-) SetToBag({t})
              /\ finalizeEvent(t.mounted)
         ELSE /\ intervals' = (intervals (-) SetToBag({t}))
                                (+) SetToBag({[t EXCEPT !.step = @ + 1]})
              /\ gate' = IF t.mounted
                         THEN playTriad([gate EXCEPT !.activeGlyph = t.step])
                         ELSE gate
              /\ afterUnmount' = IF t.mounted THEN afterUnmount
                                 ELSE afterUnmount \cup {"oscillator"}
              /\ UNCHANGED timeouts
    /\ UNCHANGED <<showGate, state, leap, invoked, contexts, dash, sources,
                   decVars>>

(* finalizeEvent's timeout fires 2 s later: setPhase('broadcast') and      *)
(* navigator.clipboard.writeText(...).                                     *)
BroadcastTimeout ==
    /\ \E t \in BagToSet(timeouts) :
         /\ timeouts' = timeouts (-) SetToBag({t})
         /\ gate' = IF t.mounted
                    THEN [gate EXCEPT !.phase = "broadcast", !.writes = @ + 1]
                    ELSE gate
         /\ afterUnmount' = IF t.mounted THEN afterUnmount
                            ELSE afterUnmount \cup {"clipboard"}
    /\ UNCHANGED <<showGate, state, leap, invoked, contexts, dash, sources,
                   intervals, decVars>>

-----------------------------------------------------------------------------
(* Spec: the App *)

Init ==
    /\ binaryString = <<>>
    /\ sampleRate = 24000
    /\ numChannels = 1
    /\ littleEndianHost \in BOOLEAN
    /\ data = <<>>
    /\ dpc = "atob"
    /\ call = NotCalled
    /\ showGate = FALSE
    /\ state = IdleState
    /\ leap = NoLeap
    /\ invoked = {}
    /\ contexts = {}
    /\ dash = NoDash
    /\ sources = <<>>
    /\ gate = NoGate
    /\ intervals = EmptyBag
    /\ timeouts = EmptyBag
    /\ afterUnmount = {}

Next ==
    \/ HandleLeap
    \/ ManifestSettles
    \/ ImageSettles
    \/ AudioSettles
    \/ MediaSettled
    \/ OpenGate
    \/ ToggleAudio
    \/ SourceFinishes
    \/ EndedEvent
    \/ StartEvent
    \/ StartEventResumed
    \/ CloseGate

Spec == Init /\ [][Next]_vars

-----------------------------------------------------------------------------
(* SpecGate: the gate with its timers, on an idle main screen *)

GateNext ==
    \/ OpenGate
    \/ StartEvent
    \/ StartEventResumed
    \/ IntervalTick
    \/ BroadcastTimeout
    \/ CloseGate

SpecGate == Init /\ [][GateNext]_vars

-----------------------------------------------------------------------------
(* Properties of the decoder (SpecDecode) *)

(* The float f is exactly the rational s / d. *)
IsQuotient(f, s, d) ==
    /\ f # NaN
    /\ f[2] <= 15
    /\ f[1] * d = s * Pow2(f[2])

(* -1.0 <= f < 1.0; a float32 has at most 24 significant bits, so a value  *)
(* m / 2^e with e >= 24 is below 1 in magnitude.                           *)
InUnitRange(f) ==
    /\ f # NaN
    /\ f[2] >= 24 \/ (-Pow2(f[2]) <= f[1] /\ f[1] < Pow2(f[2]))

Returned == dpc = "done" /\ call.outcome = "returned"

Cells == {cell \in (0..(numChannels - 1)) \X (0..(call.buffer.length - 1)) : TRUE}

CellValue(cell) == call.buffer.channelData[cell[1] + 1][cell[2] + 1]

(* C1: in a returned buffer the value at channel c, frame i is exactly     *)
(* rawSample[i * numChannels + c] / 32768, rawSample being the 16-bit view *)
(* of the input, for every channel and every frame of the buffer.          *)
C1_Deinterleave ==
    Returned =>
        \A cell \in Cells :
            LET k == cell[2] * numChannels + cell[1]
            IN  /\ k < Len(call.dataInt16)
                /\ IsQuotient(CellValue(cell), call.dataInt16[k + 1], 32768)

(* Stereo, 8 bytes, four different samples: channel 0 holds the samples at *)
(* positions 0 and 2, channel 1 those at positions 1 and 3.                *)
C1_Witness ==
    /\ Returned
    /\ numChannels = 2
    /\ call.dataInt16 = <<0, 16384, -32768, 32767>>
    /\ call.buffer.channelData =
            << << <<0, 0>>, <<-1, 0>> >>, << <<1, 1>>, <<32767, 15>> >> >>

OddInput == Len(data) % 2 = 1

C3_ShapeAndLoopBounds ==
    (Returned /\ ~OddInput) =>
        LET sampleCount == Len(data) \div 2
            frames == sampleCount \div numChannels
        IN  /\ call.buffer.numberOfChannels = numChannels
            /\ Len(call.buffer.channelData) = numChannels
            /\ \A c \in 1..numChannels : Len(call.buffer.channelData[c]) = frames
            /\ call.buffer.length = frames
            /\ call.buffer.sampleRate = sampleRate
            /\ \A a \in call.accesses : a.index < sampleCount /\ a.frame < frames

(* C4: every value of a returned buffer is exactly s / 32768 for its       *)
(* sample s and lies in [-1, 1): -32768 gives -1, 32767 gives              *)
(* 32767/32768 (not 1), 16384 gives 1/2 and 0 gives 0.                     *)
C4_Normalization ==
    Returned =>
        \A cell \in Cells :
            LET s == call.dataInt16[cell[2] * numChannels + cell[1] + 1]
                v == CellValue(cell)
            IN  /\ InUnitRange(v)
                /\ IsQuotient(v, s, 32768)
                /\ s = -32768 => v = <<-1, 0>>
                /\ s = 32767 => (v = <<32767, 15>> /\ v # <<1, 0>>)
                /\ s = 16384 => v = <<1, 1>>
                /\ s = 0 => v = <<0, 0>>

(* Mono, the samples 0, 16384, -32768, 32767: 0, 0.5, -1, 32767/32768. *)
C4_Witness ==
    /\ Returned
    /\ numChannels = 1
    /\ call.buffer.channelData =
            << << <<0, 0>>, <<1, 1>>, <<-1, 0>>, <<32767, 15>> >> >>

(* C5: whatever the host's byte order, sample k of the view is the two's   *)
(* complement value of bytes[2k] + 256 * bytes[2k+1].                      *)
C5_LittleEndianOnAnyHost ==
    (dpc = "done" /\ ~OddInput) =>
        /\ Len(call.dataInt16) = Len(data) \div 2
        /\ \A k \in 1..Len(call.dataInt16) :
              call.dataInt16[k] = ToInt16(data[2 * k - 1] + 256 * data[2 * k])

-----------------------------------------------------------------------------
(* Properties of the App (Spec) *)

(* C6: once generateManifest has succeeded the leap never shows 'error'    *)
(* and keeps its manifest; it is 'complete' when handleLeap has finished,  *)
(* and only after both media tasks settled; a fulfilled task's value is    *)
(* stored, a rejected task's field is null.                                *)
C6_PartialFailureTolerance ==
    leap.manifest = "ok" =>
        /\ state.status \in {"generating_media", "complete"}
        /\ state.manifest = leap.id
        /\ leap.pc = "done" <=> state.status = "complete"
        /\ state.status = "complete" =>
            /\ leap.image # "pending" /\ leap.audio # "pending"
            /\ state.imageData = IF leap.image = "fulfilled" THEN leap.id ELSE Null
            /\ state.audioBuffer = IF leap.audio = "fulfilled" THEN leap.audioValue
                                   ELSE NoBuffer
            /\ leap.audio = "fulfilled" => state.audioBuffer # NoBuffer

(* The image failed, the audio was decoded: the leap is complete with the  *)
(* audio buffer and no image.                                              *)
C6_Witness ==
    /\ leap.manifest = "ok"
    /\ leap.pc = "done"
    /\ leap.image = "rejected"
    /\ leap.audio = "fulfilled"
    /\ state.status = "complete"
    /\ state.imageData = Null
    /\ state.audioBuffer # NoBuffer

(* C7: when generateManifest fails (rejection, no text, unparseable text)  *)
(* the leap has ended with status 'error' and a null manifest, and neither *)
(* media collaborator was invoked for it.                                  *)
C7_ManifestFailureIsHard ==
    leap.manifest \in {"rejected", "noText", "badJSON"} =>
        /\ leap.pc = "done"
        /\ state.status = "error"
        /\ state.manifest = Null
        /\ <<"image", leap.id>> \notin invoked
        /\ <<"audio", leap.id>> \notin invoked

C7_Witness ==
    /\ leap.manifest = "noText"
    /\ leap.id = 2
    /\ <<"image", 1>> \in invoked
    /\ state.status = "error"

(* C8: no AudioContext whose creator (a finished leap, an unmounted        *)
(* dashboard, a closed gate) is gone remains open.                         *)
C8_ContextsReleased ==
    \A c \in contexts : ~c.live => c.state = "closed"

(* C10: a source that is playing was started by the dashboard that is      *)
(* mounted now: none plays on after its dashboard unmounted.               *)
C10_NoAudioAfterUnmount ==
    \A s \in 1..Len(sources) : sources[s].state = "playing" => sources[s].current

(* C12: the LeapState is consistent: 'analyzing' has no manifest, image or *)
(* audio; 'generating_media' and 'complete' have a manifest; an image or   *)
(* an audio buffer is there only when 'complete'; 'complete' is entered    *)
(* only from 'generating_media', and that only from 'analyzing'.           *)
LeapStateConsistent(st) ==
    /\ st.status = "analyzing" =>
        st.manifest = Null /\ st.imageData = Null /\ st.audioBuffer = NoBuffer
    /\ st.status \in {"generating_media", "complete"} => st.manifest # Null
    /\ (st.imageData # Null \/ st.audioBuffer # NoBuffer) => st.status = "complete"

C12_LeapStateConsistency ==
    /\ LeapStateConsistent(state)
    /\ [][/\ LeapStateConsistent(state')
          /\ (state'.status = "complete" /\ state.status # "complete")
                => state.status = "generating_media"
          /\ (state'.status = "generating_media" /\ state.status # "generating_media")
                => state.status = "analyzing"]_vars

(* A second leap is being analysed after a first one completed with an     *)
(* image and audio.                                                        *)
C12_Witness ==
    /\ leap.id = 2
    /\ state.status = "analyzing"
    /\ <<"image", 1>> \in invoked

(* C13: at most one source of the mounted dashboard is playing, and when   *)
(* isPlaying is false and no 'ended' notification is pending none is.      *)
PlayingSources == {s \in 1..Len(sources) : sources[s].state = "playing" /\ sources[s].current}

C13_SinglePlayback ==
    dash.mounted =>
        /\ Cardinality(PlayingSources) <= 1
        /\ (~dash.isPlaying /\ \A s \in 1..Len(sources) : ~sources[s].endedQueued)
                => PlayingSources = {}

-----------------------------------------------------------------------------
(* Properties of the gate (SpecGate) *)

(* The timers of a bag that belong to the mounted gate, each counted. *)
Running(timers) ==
    LET mine == {r \in BagToSet(timers) : r.mounted}
    IN  BagCardinality([r \in mine |-> CopiesIn(r, timers)])

PhaseRank(ph) ==
    CASE ph = "init" -> 0
      [] ph = "dialing" -> 1
      [] ph = "locked" -> 2
      [] ph = "broadcast" -> 3

StartedOnce(g) == g.mounted /\ g.starts = 1

(* What each phase of a sequence that was started once has done so far. *)
SequenceInOrder ==
    CASE gate.phase = "init" ->
            /\ gate.activeGlyph = -1
            /\ gate.oscillators = 0
            /\ gate.finalized = 0 /\ gate.writes = 0
            /\ Running(intervals) = 0 /\ Running(timeouts) = 0
      [] gate.phase = "dialing" ->
            /\ Running(intervals) = 1
            /\ \A t \in BagToSet(intervals) : t.mounted =>
                    /\ t.step \in 0..NumGlyphs
                    /\ gate.activeGlyph = t.step - 1
                    /\ gate.oscillators = TriadSize * t.step
            /\ gate.finalized = 0 /\ gate.writes = 0
            /\ Running(timeouts) = 0
      [] gate.phase = "locked" ->
            /\ gate.activeGlyph = NumGlyphs
            /\ gate.oscillators = TriadSize * NumGlyphs
            /\ gate.finalized = 1 /\ gate.writes = 0
            /\ Running(intervals) = 0 /\ Running(timeouts) = 1
      [] gate.phase = "broadcast" ->
            /\ gate.activeGlyph = NumGlyphs
            /\ gate.oscillators = TriadSize * NumGlyphs
            /\ gate.finalized = 1 /\ gate.writes = 1
            /\ Running(intervals) = 0 /\ Running(timeouts) = 0

(* One step of a sequence that was started once: the phase moves to the    *)
(* next one or stays, and a glyph is activated together with its triad.    *)
SequenceStep ==
    /\ PhaseRank(gate'.phase) \in {PhaseRank(gate.phase), PhaseRank(gate.phase) + 1}
    /\ gate'.activeGlyph \in {gate.activeGlyph, gate.activeGlyph + 1}
    /\ (gate'.activeGlyph # gate.activeGlyph /\ gate'.activeGlyph < NumGlyphs)
            <=> gate'.oscillators = gate.oscillators + TriadSize
    /\ gate'.oscillators \in {gate.oscillators, gate.oscillators + TriadSize}
    /\ gate'.finalized # gate.finalized
            => gate.activeGlyph = NumGlyphs - 1 /\ gate'.phase = "locked"
    /\ gate'.writes # gate.writes
            => gate.phase = "locked" /\ gate'.phase = "broadcast"

(* C11: a gate sequence started once and not aborted goes through          *)
(* init, dialing, locked, broadcast in this order; while dialing the       *)
(* glyphs 0..8 are activated in increasing order, one per tick with one    *)
(* triad of three oscillators each; finalizeEvent runs once, after the     *)
(* ninth glyph, sets activeGlyph to 9 and clears the interval; the         *)
(* clipboard write and 'broadcast' come only after 'locked'.               *)
C11_SequenceOrder ==
    /\ StartedOnce(gate) => SequenceInOrder
    /\ [][/\ StartedOnce(gate') => SequenceInOrder'
          /\ (StartedOnce(gate) /\ StartedOnce(gate')) => SequenceStep]_vars

(* A sequence that was started once has reached 'broadcast'. *)
C11_Witness ==
    /\ StartedOnce(gate)
    /\ gate.phase = "broadcast"
    /\ gate.writes = 1

(* C14: after the gate was closed it creates or starts no oscillator and   *)
(* issues no clipboard write.                                              *)
C14_AbortStopsGate == afterUnmount = {}

(* C15: however 'Initiate Sequence' is clicked, at most one interval timer *)
(* of the mounted gate is running, each glyph is activated at most once    *)
(* and finalizeEvent, with its clipboard write, runs at most once.         *)
C15_StartsAtMostOnce ==
    gate.mounted =>
        /\ Running(intervals) <= 1
        /\ gate.oscillators <= TriadSize * NumGlyphs
        /\ gate.finalized <= 1
        /\ gate.writes <= 1

====
